---------------------------- MODULE Spec2Model ----------------------------
(***************************************************************************)
(* StatePath (console/program/src/state_path/mod.rs): the record of 13     *)
(* fields, its verifying constructor StatePath::from, its 13 accessors and *)
(* the test sampler sample_state_path.                                     *)
(*                                                                         *)
(* The network N supplies the prime field, the bit encodings, the BHP hash *)
(* and the Merkle primitives.  They are modelled over a scaled-down field  *)
(* of FieldBits bits; a network is one choice of hash parameters.          *)
(***************************************************************************)
EXTENDS Integers, Sequences, FiniteSets, TLC

VARIABLES net, path, args, result, read, op

vars == <<net, path, args, result, read, op>>

(***************************************************************************)
(* Bounds of the model.                                                    *)
(***************************************************************************)
\* Bit length |F| of a field element.
FieldBits == 2
\* Depth of each of the five Merkle trees.
Depth == 1
\* Largest value drawn for the u8 / u16 attributes of the leaves.
MaxU8 == 1

FieldSize == 2 ^ FieldBits
Field == 0 .. (FieldSize - 1)
U8 == 0 .. MaxU8

(***************************************************************************)
(* Bit encodings (little-endian, fixed width).                             *)
(***************************************************************************)
ToBitsLE(x, width) == [i \in 1 .. width |-> (x \div (2 ^ (i - 1))) % 2]

\* The encodings of the values of the model, computed once.
FieldBitsTable == LET t == [x \in Field |-> ToBitsLE(x, FieldBits)] IN t @@ t
U8BitsTable == LET t == [x \in U8 |-> ToBitsLE(x, 8)] IN t @@ t
U16BitsTable == LET t == [x \in U8 |-> ToBitsLE(x, 16)] IN t @@ t

FieldToBitsLE(x) == FieldBitsTable[x]
U8ToBitsLE(x) == U8BitsTable[x]
U16ToBitsLE(x) == U16BitsTable[x]

TransitionLeafNew(version, index, variant, id) ==
    [version |-> version, index |-> index, variant |-> variant, id |-> id]

TransactionLeafNew(variant, index, id) ==
    [variant |-> variant, index |-> index, id |-> id]

HeaderLeafNew(index, id) == [index |-> index, id |-> id]

TransitionLeafToBitsLE(leaf) ==
    U8ToBitsLE(leaf.version) \o U8ToBitsLE(leaf.index)
        \o U8ToBitsLE(leaf.variant) \o FieldToBitsLE(leaf.id)

TransactionLeafToBitsLE(leaf) ==
    U8ToBitsLE(leaf.variant) \o U16ToBitsLE(leaf.index) \o FieldToBitsLE(leaf.id)

HeaderLeafToBitsLE(leaf) == U8ToBitsLE(leaf.index) \o FieldToBitsLE(leaf.id)

(***************************************************************************)
(* The hash oracle.  Absorb folds the bits into an accumulator; a network  *)
(* fixes the seed and whether the arithmetic can fail.                     *)
(***************************************************************************)
Networks == {[seed |-> 1, failing |-> FALSE], [seed |-> 2, failing |-> TRUE]}

RECURSIVE Absorb(_, _, _)
Absorb(bits, k, acc) ==
    IF k > Len(bits) THEN acc
    ELSE Absorb(bits, k + 1, (acc * 31 + bits[k] + 1) % 251)

HashOk(v) == [ok |-> TRUE, value |-> v]
HashErr == [ok |-> FALSE, value |-> 0]

\* N::hash_bhp1024: at most 1024 bits; errors on an internal arithmetic failure.
hash_bhp1024(n, bits) ==
    LET acc == Absorb(bits, 1, n.seed)
    IN  IF Len(bits) > 1024 THEN HashErr
        ELSE IF n.failing /\ acc % 5 = 0 THEN HashErr
        ELSE HashOk(acc % FieldSize)

\* Merkle leaf and node hashes (domain-separated by a leading bit).
hash_leaf(n, leaf_bits) == Absorb(<<0>> \o leaf_bits, 1, n.seed) % FieldSize

HashChildrenTable ==
    LET t == [seed \in {n.seed : n \in Networks}, left \in Field, right \in Field |->
                 Absorb(<<1>> \o FieldToBitsLE(left) \o FieldToBitsLE(right), 1, seed)
                     % FieldSize]
    IN  t @@ t

hash_children(n, left, right) == HashChildrenTable[n.seed, left, right]

hash_empty(n) == hash_children(n, 0, 0)

(***************************************************************************)
(* Merkle paths: Depth siblings (root-to-leaf order) and the leaf index.   *)
(***************************************************************************)
MerklePath(siblings, leaf_index) == [siblings |-> siblings, leaf_index |-> leaf_index]

\* The root recomputed from the leaf along the path; level 1 is the leaf level.
RECURSIVE ClimbPath(_, _, _, _)
ClimbPath(n, p, level, current) ==
    IF level > Len(p.siblings) THEN current
    ELSE LET sibling == p.siblings[Len(p.siblings) + 1 - level]
             is_right == (p.leaf_index \div (2 ^ (level - 1))) % 2 = 1
         IN  ClimbPath(n, p, level + 1,
                 IF is_right THEN hash_children(n, sibling, current)
                             ELSE hash_children(n, current, sibling))

ComputeRoot(n, p, leaf_bits) == ClimbPath(n, p, 1, hash_leaf(n, leaf_bits))

\* N::verify_merkle_path_bhp(path, root, leaf)
verify_merkle_path_bhp(n, p, root, leaf_bits) ==
    /\ Len(p.siblings) = Depth
    /\ p.leaf_index < 2 ^ Depth
    /\ ComputeRoot(n, p, leaf_bits) = root

\* N::merkle_tree_bhp(&[leaf]): a tree of one leaf, padded with empty hashes.
RECURSIVE PadRoot(_, _, _)
PadRoot(n, level, current) ==
    IF level > Depth THEN current
    ELSE PadRoot(n, level + 1, hash_children(n, current, hash_empty(n)))

merkle_tree_bhp(n, leaf_bits) ==
    [leaf |-> leaf_bits, root |-> PadRoot(n, 1, hash_leaf(n, leaf_bits))]

\* Tree::prove(0, leaf) on a tree of one leaf.
prove(n, tree, index, leaf_bits) ==
    MerklePath([i \in 1 .. Depth |-> hash_empty(n)], index)


(***************************************************************************)
(* Results.  An error is identified by the message template that produced  *)
(* it (kind) and the values interpolated into the message (carries).       *)
(***************************************************************************)
Ok(value) == [ok |-> TRUE, kind |-> "Ok", carries |-> <<>>, value |-> <<value>>]
Err(kind, carries) == [ok |-> FALSE, kind |-> kind, carries |-> carries, value |-> <<>>]

NoError == <<>>
Bail(kind, carries) == <<Err(kind, carries)>>

(***************************************************************************)
(* StatePath::from: the six ensure! steps and the record it returns.       *)
(***************************************************************************)
EnsureTransitionPath(n, a) ==
    IF verify_merkle_path_bhp(n, a.transition_path, a.transaction_leaf.id,
                              TransitionLeafToBitsLE(a.transition_leaf))
    THEN NoError
    ELSE Bail("TransitionPathInvalid", <<a.transition_leaf.id, a.transaction_leaf.id>>)

EnsureTransactionPath(n, a) ==
    IF verify_merkle_path_bhp(n, a.transaction_path, a.transaction_id,
                              TransactionLeafToBitsLE(a.transaction_leaf))
    THEN NoError
    ELSE Bail("TransactionPathInvalid", <<a.transaction_leaf.id, a.transaction_id>>)

EnsureTransactionsPath(n, a) ==
    IF verify_merkle_path_bhp(n, a.transactions_path, a.header_leaf.id,
                              FieldToBitsLE(a.transaction_id))
    THEN NoError
    ELSE Bail("TransactionsPathInvalid", <<a.transaction_id, a.header_leaf>>)

EnsureHeaderPath(n, a) ==
    IF verify_merkle_path_bhp(n, a.header_path, a.header_root,
                              HeaderLeafToBitsLE(a.header_leaf))
    THEN NoError
    ELSE Bail("HeaderPathInvalid", <<a.header_leaf, a.block_hash>>)

preimage_reversed(a) ==
    FieldToBitsLE(a.header_root) \o FieldToBitsLE(a.previous_block_hash)

preimage(a) ==
    FieldToBitsLE(a.previous_block_hash) \o FieldToBitsLE(a.header_root)

EnsureBlockHash_swallow(n, a) ==
    LET computed == hash_bhp1024(n, preimage(a))
    IN  IF computed.ok /\ a.block_hash = computed.value THEN NoError
        ELSE Bail("BlockHashMismatch", <<a.block_hash>>)

EnsureBlockHash_computed(n, a) ==
    LET computed == hash_bhp1024(n, preimage(a))
    IN  IF ~computed.ok THEN Bail("HashError", <<>>)
        ELSE IF a.block_hash = computed.value THEN NoError
        ELSE Bail("BlockHashMismatch", <<computed.value, a.block_hash>>)

\* The `?` returns the error of hash_bhp1024 as it is.
EnsureBlockHash(n, a) ==
    LET computed == hash_bhp1024(n, preimage(a))
    IN  IF ~computed.ok THEN Bail("HashError", <<>>)
        ELSE IF a.block_hash = computed.value THEN NoError
        ELSE Bail("BlockHashMismatch", <<a.block_hash>>)

EnsureBlockPath(n, a) ==
    IF verify_merkle_path_bhp(n, a.block_path, a.state_root, FieldToBitsLE(a.block_hash))
    THEN NoError
    ELSE Bail("BlockPathInvalid", <<a.block_hash, a.state_root>>)

NewStatePath_swapped(a) ==
    [state_root          |-> a.state_root,
     block_path          |-> a.block_path,
     block_hash          |-> a.previous_block_hash,
     previous_block_hash |-> a.block_hash,
     header_root         |-> a.header_root,
     header_path         |-> a.header_path,
     header_leaf         |-> a.header_leaf,
     transactions_path   |-> a.transactions_path,
     transaction_id      |-> a.transaction_id,
     transaction_path    |-> a.transaction_path,
     transaction_leaf    |-> a.transaction_leaf,
     transition_path     |-> a.transition_path,
     transition_leaf     |-> a.transition_leaf]

NewStatePath(a) ==
    [state_root          |-> a.state_root,
     block_path          |-> a.block_path,
     block_hash          |-> a.block_hash,
     previous_block_hash |-> a.previous_block_hash,
     header_root         |-> a.header_root,
     header_path         |-> a.header_path,
     header_leaf         |-> a.header_leaf,
     transactions_path   |-> a.transactions_path,
     transaction_id      |-> a.transaction_id,
     transaction_path    |-> a.transaction_path,
     transaction_leaf    |-> a.transaction_leaf,
     transition_path     |-> a.transition_path,
     transition_leaf     |-> a.transition_leaf]

\* The k-th ensure! of StatePath::from.
Ensure(n, a, k) ==
    CASE k = 1 -> EnsureTransitionPath(n, a)
      [] k = 2 -> EnsureTransactionPath(n, a)
      [] k = 3 -> EnsureTransactionsPath(n, a)
      [] k = 4 -> EnsureHeaderPath(n, a)
      [] k = 5 -> EnsureBlockHash(n, a)
      [] k = 6 -> EnsureBlockPath(n, a)

\* Runs the ensure! steps in the given order, returning at the first error.
RECURSIVE RunChecks(_, _, _, _)
RunChecks(n, a, order, i) ==
    IF i > Len(order) THEN Ok(NewStatePath(a))
    ELSE LET e == Ensure(n, a, order[i])
         IN  IF e /= NoError THEN e[1] ELSE RunChecks(n, a, order, i + 1)

From_no_block_path(n, a) == RunChecks(n, a, <<1, 2, 3, 4, 5>>, 1)
From_top_down(n, a) == RunChecks(n, a, <<6, 5, 4, 3, 2, 1>>, 1)
From_header_first(n, a) == RunChecks(n, a, <<1, 2, 4, 3, 5, 6>>, 1)
From_block_path_first(n, a) == RunChecks(n, a, <<1, 2, 3, 4, 6, 5>>, 1)

From(n, a) == RunChecks(n, a, <<1, 2, 3, 4, 5, 6>>, 1)

(***************************************************************************)
(* The thirteen accessors.                                                 *)
(***************************************************************************)
state_root(self) == self.state_root
block_path(self) == self.block_path
block_hash(self) == self.block_hash
previous_block_hash_wrong(self) == self.block_hash
previous_block_hash(self) == self.previous_block_hash
header_root(self) == self.header_root
header_path(self) == self.header_path
header_leaf(self) == self.header_leaf
transactions_path(self) == self.transactions_path
transaction_id(self) == self.transaction_id
transaction_path(self) == self.transaction_path
transaction_leaf(self) == self.transaction_leaf
transition_path(self) == self.transition_path
transition_leaf(self) == self.transition_leaf

FieldNames ==
    {"state_root", "block_path", "block_hash", "previous_block_hash", "header_root",
     "header_path", "header_leaf", "transactions_path", "transaction_id",
     "transaction_path", "transaction_leaf", "transition_path", "transition_leaf"}

\* The accessor of the given name applied to self.
Accessor(name, self) ==
    CASE name = "state_root"          -> state_root(self)
      [] name = "block_path"          -> block_path(self)
      [] name = "block_hash"          -> block_hash(self)
      [] name = "previous_block_hash" -> previous_block_hash(self)
      [] name = "header_root"         -> header_root(self)
      [] name = "header_path"         -> header_path(self)
      [] name = "header_leaf"         -> header_leaf(self)
      [] name = "transactions_path"   -> transactions_path(self)
      [] name = "transaction_id"      -> transaction_id(self)
      [] name = "transaction_path"    -> transaction_path(self)
      [] name = "transaction_leaf"    -> transaction_leaf(self)
      [] name = "transition_path"     -> transition_path(self)
      [] name = "transition_leaf"     -> transition_leaf(self)

\* The 13 arguments of a reconstruction: what the accessors of self return.
FieldsOf(self) == [name \in FieldNames |-> Accessor(name, self)]

(***************************************************************************)
(* test_helpers::sample_state_path.  rng holds the four random draws:      *)
(* the transition leaf's variant and id, the transaction leaf's variant    *)
(* and the previous block hash.                                            *)
(***************************************************************************)
\* The variants drawn: the least and the greatest.
VariantDraws == {0, MaxU8}

Rngs ==
    [variant : VariantDraws, id : Field, tx_variant : VariantDraws,
     previous_block_hash : Field]

\* The one element of a singleton set.
Only(S) == CHOOSE v \in S : TRUE

\* The transition path and the transaction leaf's id (the transition tree's root).
TransitionStage(n, rng) ==
    LET leaf == TransitionLeafNew(0, 0, rng.variant, rng.id)
        tree == merkle_tree_bhp(n, TransitionLeafToBitsLE(leaf))
    IN  [transition_leaf |-> leaf,
         transition_id   |-> tree.root,
         transition_path |-> prove(n, tree, 0, TransitionLeafToBitsLE(leaf))]

\* The transaction path and the transaction id (the transaction tree's root).
TransactionStage(n, rng, s0) ==
    Only({ LET leaf == TransactionLeafNew(rng.tx_variant, 0, s.transition_id)
               tree == merkle_tree_bhp(n, TransactionLeafToBitsLE(leaf))
           IN  s @@ [transaction_leaf |-> leaf,
                     transaction_id   |-> tree.root,
                     transaction_path |-> prove(n, tree, 0, TransactionLeafToBitsLE(leaf))]
           : s \in {s0} })

\* The transactions path and the transactions root.
TransactionsStage(n, s0) ==
    Only({ LET tree == merkle_tree_bhp(n, FieldToBitsLE(s.transaction_id))
           IN  s @@ [transactions_root |-> tree.root,
                     transactions_path |-> prove(n, tree, 0, FieldToBitsLE(s.transaction_id))]
           : s \in {s0} })

HeaderStage_transaction_id(n, s0) ==
    Only({ LET leaf == HeaderLeafNew(0, s.transaction_id)
               tree == merkle_tree_bhp(n, HeaderLeafToBitsLE(leaf))
           IN  s @@ [header_leaf |-> leaf,
                     header_root |-> tree.root,
                     header_path |-> prove(n, tree, 0, HeaderLeafToBitsLE(leaf))]
           : s \in {s0} })

\* The header path and the header root; the header leaf holds the transactions root.
HeaderStage(n, s0) ==
    Only({ LET leaf == HeaderLeafNew(0, s.transactions_root)
               tree == merkle_tree_bhp(n, HeaderLeafToBitsLE(leaf))
           IN  s @@ [header_leaf |-> leaf,
                     header_root |-> tree.root,
                     header_path |-> prove(n, tree, 0, HeaderLeafToBitsLE(leaf))]
           : s \in {s0} })

sample_preimage(prev, root) == FieldToBitsLE(prev) \o FieldToBitsLE(root)

\* The previous block hash and the result of hashing the preimage.
BlockHashStage(n, rng, s0) ==
    Only({ s @@ [previous_block_hash |-> rng.previous_block_hash,
                 hash |-> hash_bhp1024(n, sample_preimage(rng.previous_block_hash,
                                                           s.header_root))]
           : s \in {s0} })

\* The state root and the block path.
BlockStage(n, s0) ==
    Only({ LET tree == merkle_tree_bhp(n, FieldToBitsLE(s.hash.value))
           IN  s @@ [block_hash |-> s.hash.value,
                     state_root |-> tree.root,
                     block_path |-> prove(n, tree, 0, FieldToBitsLE(s.hash.value))]
           : s \in {s0} })

\* Lines 210-239: the values sample_state_path builds, bottom-up.
sample_values(n, rng) ==
    BlockStage(n,
        BlockHashStage(n, rng,
            HeaderStage(n,
                TransactionsStage(n,
                    TransactionStage(n, rng,
                        TransitionStage(n, rng))))))

\* Lines 241-255: the 13 arguments, in the constructor's order.
sample_arguments(s) ==
    [state_root          |-> s.state_root,
     block_path          |-> s.block_path,
     block_hash          |-> s.block_hash,
     previous_block_hash |-> s.previous_block_hash,
     header_root         |-> s.header_root,
     header_path         |-> s.header_path,
     header_leaf         |-> s.header_leaf,
     transactions_path   |-> s.transactions_path,
     transaction_id      |-> s.transaction_id,
     transaction_path    |-> s.transaction_path,
     transaction_leaf    |-> s.transaction_leaf,
     transition_path     |-> s.transition_path,
     transition_leaf     |-> s.transition_leaf]

\* The `?` on hash_bhp1024 returns before StatePath::from is called.
sample_state_path(n, rng) ==
    Only({ IF ~s.hash.ok THEN Err("HashError", <<>>) ELSE From(n, sample_arguments(s))
           : s \in {sample_values(n, rng)} })

\* The sampler's values and result for every network and every draw.
SampleTable ==
    LET t == [n \in Networks, rng \in Rngs |->
                 Only({ [hash   |-> s.hash,
                         args   |-> sample_arguments(s),
                         result |-> sample_state_path(n, rng)]
                        : s \in {sample_values(n, rng)} })]
    IN  t @@ t

(***************************************************************************)
(* The values a caller substitutes for one field of a StatePath: another   *)
(* field element, a path with one sibling or the leaf index changed, a     *)
(* leaf with one attribute changed.                                        *)
(***************************************************************************)
ElementFields ==
    {"state_root", "block_hash", "previous_block_hash", "header_root", "transaction_id"}

PathFields ==
    {"block_path", "header_path", "transactions_path", "transaction_path",
     "transition_path"}

PathVariants(p) ==
    {MerklePath([p.siblings EXCEPT ![k] = v], p.leaf_index) :
        k \in 1 .. Len(p.siblings), v \in Field}
    \cup {MerklePath(p.siblings, i) : i \in 0 .. (2 ^ Depth)}

TransitionLeafVariants(l) ==
    {[l EXCEPT !.version = v] : v \in U8} \cup {[l EXCEPT !.index = v] : v \in U8}
    \cup {[l EXCEPT !.variant = v] : v \in U8} \cup {[l EXCEPT !.id = v] : v \in Field}

TransactionLeafVariants(l) ==
    {[l EXCEPT !.variant = v] : v \in U8} \cup {[l EXCEPT !.index = v] : v \in U8}
    \cup {[l EXCEPT !.id = v] : v \in Field}

HeaderLeafVariants(l) ==
    {[l EXCEPT !.index = v] : v \in U8} \cup {[l EXCEPT !.id = v] : v \in Field}

Variants(f, x) ==
    (CASE f \in ElementFields      -> Field
       [] f \in PathFields         -> PathVariants(x[f])
       [] f = "transition_leaf"    -> TransitionLeafVariants(x[f])
       [] f = "transaction_leaf"   -> TransactionLeafVariants(x[f])
       [] f = "header_leaf"        -> HeaderLeafVariants(x[f])) \ {x[f]}

(***************************************************************************)
(* State: the network, the StatePath the caller holds (path), the          *)
(* arguments and the result of the last constructor call, the last value   *)
(* an accessor returned, and the last operation.                           *)
(***************************************************************************)
Init ==
    /\ net \in Networks
    /\ path = <<>>
    /\ args = <<>>
    /\ result = Err("None", <<>>)
    /\ read = <<>>
    /\ op = "init"

\* sample_state_path(rng); the caller keeps the StatePath it yields.
Sample ==
    /\ path = <<>>
    /\ \E rng \in Rngs :
        /\ args' = IF SampleTable[net, rng].hash.ok
                   THEN <<SampleTable[net, rng].args>> ELSE <<>>
        /\ result' = SampleTable[net, rng].result
        /\ path' = SampleTable[net, rng].result.value
    /\ read' = <<>>
    /\ op' = "sample"
    /\ UNCHANGED net

\* The owner drops the StatePath it holds.
Drop ==
    /\ path /= <<>>
    /\ path' = <<>>
    /\ args' = <<>>
    /\ result' = Err("None", <<>>)
    /\ read' = <<>>
    /\ op' = "init"
    /\ UNCHANGED net

\* StatePath::from on the 13 values the accessors of the held path return.
Reconstruct ==
    /\ path /= <<>>
    /\ op \in {"sample", "reconstruct", "access"}
    /\ \E a \in {FieldsOf(path[1])} :
         /\ args' = <<a>>
         /\ result' = From(net, a)
    /\ read' = <<>>
    /\ op' = "reconstruct"
    /\ UNCHANGED <<net, path>>

\* StatePath::from on the fields of the held path with one field replaced.
\* (The call is made right after the path was sampled: made later, it has
\* the same arguments and the same result.)
Tamper ==
    /\ path /= <<>>
    /\ op = "sample"
    /\ \E x \in {FieldsOf(path[1])} :
         \E f \in FieldNames :
           \E v \in Variants(f, x) :
             \E a \in {[x EXCEPT ![f] = v]} :
               /\ args' = <<a>>
               /\ result' = From(net, a)
    /\ read' = <<>>
    /\ op' = "tamper"
    /\ UNCHANGED <<net, path>>

\* StatePath::from on the fields of the held path A with the header leaf of
\* another sampled StatePath B.
SwapHeaderLeaf ==
    /\ path /= <<>>
    /\ op = "sample"
    /\ \E rng \in Rngs :
         /\ SampleTable[net, rng].result.ok
         /\ \E b \in {SampleTable[net, rng].result.value[1]} :
              /\ header_leaf(b) /= header_leaf(path[1])
              /\ \E a \in {[FieldsOf(path[1]) EXCEPT !["header_leaf"] = header_leaf(b)]} :
                   /\ args' = <<a>>
                   /\ result' = From(net, a)
    /\ read' = <<>>
    /\ op' = "swap"
    /\ UNCHANGED <<net, path>>

\* One of the 13 accessors on the held StatePath, while the last constructor
\* call is the one that returned it.
Access ==
    /\ path /= <<>>
    /\ result = Ok(path[1])
    /\ \E name \in FieldNames :
         read' = <<[name |-> name, value |-> Accessor(name, path[1])]>>
    /\ op' = "access"
    /\ UNCHANGED <<net, path, args, result>>

Next == Sample \/ Reconstruct \/ Tamper \/ SwapHeaderLeaf \/ Access \/ Drop

Spec == Init /\ [][Next]_vars

(***************************************************************************)
(* The six invariants of a StatePath, as conditions on 13 field values.    *)
(***************************************************************************)
Inv1(n, a) ==
    verify_merkle_path_bhp(n, a.transition_path, a.transaction_leaf.id,
                           TransitionLeafToBitsLE(a.transition_leaf))
Inv2(n, a) ==
    verify_merkle_path_bhp(n, a.transaction_path, a.transaction_id,
                           TransactionLeafToBitsLE(a.transaction_leaf))
Inv3(n, a) ==
    verify_merkle_path_bhp(n, a.transactions_path, a.header_leaf.id,
                           FieldToBitsLE(a.transaction_id))
Inv4(n, a) ==
    verify_merkle_path_bhp(n, a.header_path, a.header_root,
                           HeaderLeafToBitsLE(a.header_leaf))
\* hash_bhp1024 of the previous block hash's bits followed by the header root's.
HashForward(n, a) ==
    hash_bhp1024(n, FieldToBitsLE(a.previous_block_hash) \o FieldToBitsLE(a.header_root))
\* hash_bhp1024 of the header root's bits followed by the previous block hash's.
HashReversed(n, a) ==
    hash_bhp1024(n, FieldToBitsLE(a.header_root) \o FieldToBitsLE(a.previous_block_hash))
Inv5(n, a) == HashForward(n, a).ok /\ a.block_hash = HashForward(n, a).value
Inv6(n, a) ==
    verify_merkle_path_bhp(n, a.block_path, a.state_root, FieldToBitsLE(a.block_hash))

Inv1to4(n, a) == Inv1(n, a) /\ Inv2(n, a) /\ Inv3(n, a) /\ Inv4(n, a)
AllSix(n, a) == Inv1to4(n, a) /\ Inv5(n, a) /\ Inv6(n, a)

\* StatePath::from was called on args[1] and result is what it returned.
Called == args /= <<>>

SixKinds ==
    {"TransitionPathInvalid", "TransactionPathInvalid", "TransactionsPathInvalid",
     "HeaderPathInvalid", "BlockHashMismatch", "BlockPathInvalid"}

KindOf(k) ==
    CASE k = 1 -> "TransitionPathInvalid"
      [] k = 2 -> "TransactionPathInvalid"
      [] k = 3 -> "TransactionsPathInvalid"
      [] k = 4 -> "HeaderPathInvalid"
      [] k = 5 -> "BlockHashMismatch"
      [] k = 6 -> "BlockPathInvalid"

(***************************************************************************)
(* C1.  StatePath::from returns a StatePath only if all six invariants     *)
(* hold for its arguments; if one of them fails, it returns none.          *)
(***************************************************************************)
C1_OkOnlyIfAllSix ==
    (Called /\ result.ok) => AllSix(net, args[1])

\* A call on altered fields that was accepted.
C1_Witness == op = "tamper" /\ result.ok /\ AllSix(net, args[1])

(***************************************************************************)
(* C2.  The checks run in the order 1 to 6 and the error returned is that  *)
(* of the first check that fails, whatever the later checks would give.    *)
(* (Check 5 fails when hash_bhp1024 returns a value other than block_hash.)*)
(***************************************************************************)
C2_FirstFailingCheck ==
    Called =>
        LET a == args[1]
            h == HashForward(net, a)
        IN  /\ ~Inv1(net, a) => result.kind = "TransitionPathInvalid"
            /\ (Inv1(net, a) /\ ~Inv2(net, a)) => result.kind = "TransactionPathInvalid"
            /\ (Inv1(net, a) /\ Inv2(net, a) /\ ~Inv3(net, a))
                   => result.kind = "TransactionsPathInvalid"
            /\ (Inv1(net, a) /\ Inv2(net, a) /\ Inv3(net, a) /\ ~Inv4(net, a))
                   => result.kind = "HeaderPathInvalid"
            /\ (Inv1to4(net, a) /\ h.ok /\ a.block_hash /= h.value)
                   => result.kind = "BlockHashMismatch"
            /\ (Inv1to4(net, a) /\ Inv5(net, a) /\ ~Inv6(net, a))
                   => result.kind = "BlockPathInvalid"

\* Checks 5 and 6 both fail and the error is that of check 5.
C2_Witness ==
    /\ Called
    /\ Inv1to4(net, args[1]) /\ ~Inv5(net, args[1]) /\ ~Inv6(net, args[1])
    /\ result.kind = "BlockHashMismatch"

(***************************************************************************)
(* Tampering: the field of the held path that the arguments replace, the   *)
(* inputs and the outcome of each check, and freedom from collisions.      *)
(***************************************************************************)
ChangedFields == {f \in FieldNames : args[1][f] /= path[1][f]}
TamperedField == CHOOSE f \in ChangedFields : TRUE

\* What check k hashes.
Preimage(k, a) ==
    CASE k = 1 -> <<a.transition_path, TransitionLeafToBitsLE(a.transition_leaf)>>
      [] k = 2 -> <<a.transaction_path, TransactionLeafToBitsLE(a.transaction_leaf)>>
      [] k = 3 -> <<a.transactions_path, FieldToBitsLE(a.transaction_id)>>
      [] k = 4 -> <<a.header_path, HeaderLeafToBitsLE(a.header_leaf)>>
      [] k = 5 -> <<FieldToBitsLE(a.previous_block_hash), FieldToBitsLE(a.header_root)>>
      [] k = 6 -> <<a.block_path, FieldToBitsLE(a.block_hash)>>

PathDigest(n, p, leaf_bits) ==
    [ok    |-> Len(p.siblings) = Depth /\ p.leaf_index < 2 ^ Depth,
     value |-> ComputeRoot(n, p, leaf_bits)]

\* What the oracle of check k computes from it.
Digest(n, k, a) ==
    IF k = 5 THEN HashForward(n, a)
    ELSE PathDigest(n, Preimage(k, a)[1], Preimage(k, a)[2])

\* The oracles map the different inputs of x and y to different outputs.
NoCollision(n, x, y) ==
    \A k \in 1 .. 6 :
        Preimage(k, x) /= Preimage(k, y) => Digest(n, k, x) /= Digest(n, k, y)

\* The lowest-numbered check whose condition mentions field f.
LowestReading(f) ==
    CASE f \in {"transition_path", "transition_leaf", "transaction_leaf"} -> 1
      [] f \in {"transaction_path", "transaction_id"}                    -> 2
      [] f \in {"transactions_path", "header_leaf"}                      -> 3
      [] f \in {"header_path", "header_root"}                            -> 4
      [] f \in {"previous_block_hash", "block_hash"}                     -> 5
      [] f \in {"block_path", "state_root"}                              -> 6

\* The root (for check 5, the hash) that check k compares the outcome with.
Root(k, a) ==
    CASE k = 1 -> a.transaction_leaf.id
      [] k = 2 -> a.transaction_id
      [] k = 3 -> a.header_leaf.id
      [] k = 4 -> a.header_root
      [] k = 5 -> a.block_hash
      [] k = 6 -> a.state_root

\* The lowest-numbered check whose inputs differ between x and y.
LowestAffected(x, y) ==
    CHOOSE k \in 1 .. 6 :
        /\ Preimage(k, x) /= Preimage(k, y) \/ Root(k, x) /= Root(k, y)
        /\ \A j \in 1 .. (k - 1) :
               Preimage(j, x) = Preimage(j, y) /\ Root(j, x) = Root(j, y)

OneFieldTampered == op = "tamper" /\ Called /\ path /= <<>>

(***************************************************************************)
(* C3.  Tamper rejection.  As claimed: with one field of a valid path      *)
(* replaced by a different value, and no collision in the oracles, the     *)
(* constructor fails with the error of the lowest-numbered check that      *)
(* reads the field.                                                        *)
(***************************************************************************)
C3_LowestReadingCheck ==
    (OneFieldTampered /\ NoCollision(net, path[1], args[1]))
        => (~result.ok /\ result.kind = KindOf(LowestReading(TamperedField)))

(***************************************************************************)
(* C3, amended.  With one field of a valid path replaced by a different    *)
(* value, and no collision in the oracles, the constructor fails with the  *)
(* error of the lowest-numbered check whose inputs changed (a leaf with    *)
(* its id unchanged does not change the check that reads only its id);     *)
(* when that check is check 5 and hash_bhp1024 errors on the new preimage, *)
(* the constructor fails with the error of hash_bhp1024.                   *)
(***************************************************************************)
C3_LowestAffectedCheck ==
    (OneFieldTampered /\ NoCollision(net, path[1], args[1]))
        => LET k == LowestAffected(path[1], args[1])
           IN  /\ ~result.ok
               /\ result.kind = IF k = 5 /\ ~HashForward(net, args[1]).ok
                                THEN "HashError" ELSE KindOf(k)

\* previous_block_hash altered: BlockHashMismatch, although check 6 passes.
C3_Witness ==
    /\ OneFieldTampered /\ NoCollision(net, path[1], args[1])
    /\ TamperedField = "previous_block_hash"
    /\ result.kind = "BlockHashMismatch"

(***************************************************************************)
(* C4.  Swapped header leaves.  As claimed: A's fields with the header     *)
(* leaf of B, B's header leaf differing from A's, fail with                *)
(* HeaderPathInvalid.                                                      *)
(***************************************************************************)
C4_SwapGivesHeaderPathInvalid ==
    op = "swap" => (~result.ok /\ result.kind = "HeaderPathInvalid")

(***************************************************************************)
(* C4, amended.  A's fields with a different header leaf: when the new     *)
(* leaf's id differs from A's (as it does between two sampled paths) the   *)
(* constructor fails with TransactionsPathInvalid, the error of check 3;   *)
(* when only the leaf's index differs and check 4 does not collide, it     *)
(* fails with HeaderPathInvalid.                                           *)
(***************************************************************************)
C4_SwapGivesFirstAffected ==
    (op \in {"swap", "tamper"} /\ Called /\ path /= <<>>
        /\ ChangedFields = {"header_leaf"})
        => LET x == path[1]
               y == args[1]
           IN  /\ op = "swap" => y.header_leaf.id /= x.header_leaf.id
               /\ y.header_leaf.id /= x.header_leaf.id
                      => (~result.ok /\ result.kind = "TransactionsPathInvalid")
               /\ (y.header_leaf.id = x.header_leaf.id
                       /\ Digest(net, 4, x) /= Digest(net, 4, y))
                      => (~result.ok /\ result.kind = "HeaderPathInvalid")

\* The header leaf of another sampled path was substituted and check 3 failed.
C4_Witness ==
    /\ op = "swap" /\ ChangedFields = {"header_leaf"}
    /\ Inv1(net, args[1]) /\ Inv2(net, args[1])
    /\ result.kind = "TransactionsPathInvalid"

(***************************************************************************)
(* C5.  As claimed: every failure of StatePath::from is of one of the six  *)
(* kinds of the checks, also when hash_bhp1024 returns an error.           *)
(***************************************************************************)
C5_OnlySixKinds ==
    (Called /\ ~result.ok) => result.kind \in SixKinds

(***************************************************************************)
(* C5, amended.  Every failure of StatePath::from is of one of the six     *)
(* kinds of the checks, except that when checks 1-4 pass and hash_bhp1024  *)
(* returns an error the constructor returns that error, which is of none   *)
(* of the six kinds.                                                       *)
(***************************************************************************)
C5_SixKindsOrHashError ==
    (Called /\ ~result.ok)
        => IF Inv1to4(net, args[1]) /\ ~HashForward(net, args[1]).ok
           THEN result.kind = "HashError" /\ result.kind \notin SixKinds
           ELSE result.kind \in SixKinds

\* Checks 1-4 passed and hash_bhp1024 returned an error.
C5_Witness ==
    /\ Called /\ ~result.ok
    /\ Inv1to4(net, args[1]) /\ ~HashForward(net, args[1]).ok

(***************************************************************************)
(* C6.  As claimed: the BlockHashMismatch error carries the computed and   *)
(* the stated block hash.                                                  *)
(***************************************************************************)
C6_CarriesComputedAndStated ==
    (Called /\ result.kind = "BlockHashMismatch")
        => /\ \E i \in DOMAIN result.carries :
                  result.carries[i] = HashForward(net, args[1]).value
           /\ \E i \in DOMAIN result.carries :
                  result.carries[i] = args[1].block_hash

(***************************************************************************)
(* C6, amended.  The BlockHashMismatch error carries the stated block      *)
(* hash, and nothing else: the computed hash is not in it.                 *)
(***************************************************************************)
C6_CarriesStatedOnly ==
    (Called /\ result.kind = "BlockHashMismatch")
        => /\ result.carries = <<args[1].block_hash>>
           /\ HashForward(net, args[1]).ok
           /\ \A i \in DOMAIN result.carries :
                  result.carries[i] /= HashForward(net, args[1]).value

\* Check 5 failed after checks 1-4 passed.
C6_Witness ==
    /\ Called /\ result.kind = "BlockHashMismatch"
    /\ Inv1to4(net, args[1]) /\ ~Inv5(net, args[1])

(***************************************************************************)
(* C7.  StatePath::from on the 13 values the accessors of a valid          *)
(* StatePath return succeeds and yields an equal StatePath.                *)
(***************************************************************************)
C7_ReconstructionEqual ==
    op = "reconstruct" => (result.ok /\ result.value = path)

\* A held path was reconstructed from its accessors.
C7_Witness ==
    op = "reconstruct" /\ path /= <<>> /\ args = <<FieldsOf(path[1])>> /\ result.ok

(***************************************************************************)
(* C8.  Whenever StatePath::from succeeds, each of the 13 accessors        *)
(* returns the value passed for the parameter of its name, and a call of   *)
(* an accessor changes none of the 13 fields.                              *)
(***************************************************************************)
C8_AccessorConsistency ==
    [][ /\ (result'.ok /\ args' /= <<>>)
            => \A name \in FieldNames :
                   Accessor(name, result'.value[1]) = args'[1][name]
        /\ op' = "access"
            => /\ path' = path /\ result' = result /\ args' = args
               /\ read'[1].value = args[1][read'[1].name] ]_vars

\* An accessor was called on a constructed path and returned the argument.
C8_Witness ==
    /\ op = "access" /\ read /= <<>> /\ result.ok
    /\ read[1].name = "transition_leaf"
    /\ read[1].value = args[1].transition_leaf

(***************************************************************************)
(* C9.  The preimage of check 5 is the bits of previous_block_hash         *)
(* followed by the bits of header_root, 2 * FieldBits bits; block_hash is  *)
(* accepted exactly when it is hash_bhp1024 of that, and a block_hash that *)
(* is the hash of the reversed concatenation is rejected when the two      *)
(* hashes differ.                                                          *)
(***************************************************************************)
C9_PreimageOrder ==
    Called =>
        LET a == args[1]
            fwd == HashForward(net, a)
            rev == HashReversed(net, a)
        IN  /\ preimage(a) = FieldToBitsLE(a.previous_block_hash)
                                 \o FieldToBitsLE(a.header_root)
            /\ Len(preimage(a)) = 2 * FieldBits
            /\ result.ok => (fwd.ok /\ a.block_hash = fwd.value)
            /\ (Inv1to4(net, a) /\ Inv6(net, a) /\ fwd.ok /\ a.block_hash = fwd.value)
                   => result.ok
            /\ (Inv1to4(net, a) /\ fwd.ok /\ rev.ok /\ rev.value /= fwd.value
                    /\ a.block_hash = rev.value)
                   => result.kind = "BlockHashMismatch"

\* block_hash is the hash of the reversed concatenation, and is rejected.
C9_Witness ==
    /\ Called /\ Inv1to4(net, args[1])
    /\ HashForward(net, args[1]).ok /\ HashReversed(net, args[1]).ok
    /\ HashReversed(net, args[1]).value /= HashForward(net, args[1]).value
    /\ args[1].block_hash = HashReversed(net, args[1]).value
    /\ result.kind = "BlockHashMismatch"

(***************************************************************************)
(* C10.  sample_state_path yields a valid StatePath for every random       *)
(* choice, unless hash_bhp1024 returns an error.                           *)
(***************************************************************************)
C10_SampleValid ==
    op = "sample"
        => \/ /\ result.ok /\ Called
              /\ AllSix(net, args[1])
              /\ path = result.value
           \/ /\ ~result.ok /\ result.kind = "HashError" /\ ~Called

\* A sampled path that passed all six checks.
C10_Witness ==
    /\ op = "sample" /\ result.ok
    /\ args[1].transition_leaf.version = 0 /\ args[1].transition_leaf.index = 0
    /\ args[1].block_path.leaf_index = 0
    /\ AllSix(net, args[1])

=============================================================================
